---------------------------- MODULE Spec2Model ----------------------------
(***************************************************************************)
(* The route bootstrap pipeline of server/pages/index.js: the Express app  *)
(* built by module.exports, its handlers in registration order, the auth   *)
(* gate (setUpRoute, setUpLoggedInRoute, setUpLoggedOutRoute), the asset   *)
(* URL resolver (hashFile, generateStaticUrls) with its per-file cache,    *)
(* and the legacy /sites/:site/:section rewriter.                          *)
(*                                                                         *)
(* Strings are sequences of tokens whose concatenation is the string.  A   *)
(* string that comes from a request (path, parameter, query value) is      *)
(* held one character per token, so that the regular expressions and the   *)
(* percent-encoding of the code act on it character by character; a        *)
(* literal of the source or a configuration value is one token.            *)
(*                                                                         *)
(* One request is in flight at a time.  Every handler of the pipeline is   *)
(* synchronous but for the identity-service call, and the callback of      *)
(* that call touches only the request's own req, res and context.          *)
(***************************************************************************)
EXTENDS Naturals, Sequences, FiniteSets, TLC

VARIABLES
    cfg,        \* config(...): env, wpcom_user_bootstrap, features
    app,        \* the routes module.exports registered on the app, in order
    sections,   \* the module-level `sections` (line 37)
    fileHash,   \* staticFiles[i].hash, the per-file token cache
    fs,         \* the files under cwd/public: readable?, content
    clock,      \* new Date().getTime()
    assets,     \* app.get('assets'), the dynamic bundle manifest
    req,        \* the request in flight (or the one just answered)
    context,    \* req.context
    gateCtx,    \* `context` of setUpLoggedInRoute's closure
    res,        \* the response: headers set, what was sent
    phase,      \* idle | routing | pending | done
    idx,        \* the next entry of the route table to try
    trail,      \* the handlers that ran for this request, in order
    calls,      \* identity-service calls issued for this request
    reply,      \* what the identity service reported to the callback
    last,       \* the asset URL map the previous request was given,
                \* kept while the request in flight repeats it
    repeat,     \* the request in flight repeats the previous one, and
                \* no file or manifest changed since that one arrived
    stable,     \* no file or manifest changed since the request arrived
    events,     \* environment events so far (file changes, rebuilds)
    state,      \* the global state tree the login selectors are given
    selected    \* the selector applied last and what it returned

vars == <<cfg, app, sections, fileHash, fs, clock, assets, req, context, gateCtx,
          res, phase, idx, trail, calls, reply, last, repeat, stable,
          events, state, selected>>

----------------------------------------------------------------------------
(* Bounds of the model. *)

\* Environment events (a static file written or removed, the bundle
\* manifest rebuilt) over one run.
MaxEvents == 2

\* The largest value of the clock.
MaxClock == 1

----------------------------------------------------------------------------
(* Characters and strings. *)

Digits == {"0", "1", "2", "3", "4", "5", "6", "7", "8", "9"}

LowerCase == {"a", "b", "c", "d", "e", "f", "g", "h", "i", "j", "k", "l", "m",
              "n", "o", "p", "q", "r", "s", "t", "u", "v", "w", "x", "y", "z"}

UpperCase == {"A", "B", "C", "D", "E", "F", "G", "H", "I", "J", "K", "L", "M",
              "N", "O", "P", "Q", "R", "S", "T", "U", "V", "W", "X", "Y", "Z"}

\* [0-9a-zA-Z\-\.] of the two regular expressions of the legacy rewriter.
SiteClass == Digits \cup LowerCase \cup UpperCase \cup {"-", "."}

\* \w of a JavaScript regular expression.
WordClass == Digits \cup LowerCase \cup UpperCase \cup {"_"}

\* The length of the longest run of characters of `class` in s from i.
RECURSIVE RunLen(_, _, _)
RunLen(s, i, class) ==
    IF i <= Len(s) /\ s[i] \in class THEN 1 + RunLen(s, i + 1, class) ELSE 0

\* s holds the literal lit at position i.
HasAt(s, i, lit) ==
    /\ i + Len(lit) - 1 <= Len(s)
    /\ \A k \in 1..Len(lit) : s[i + k - 1] = lit[k]

\* s from position i to its end.
From(s, i) == SubSeq(s, i, Len(s))

\* The characters encodeURIComponent and qs.stringify escape, among those a
\* request of the model can hold, with their escapes.
Escapes == [t \in {" ", "&", "/", "?", "=", "://"} |->
              CASE t = " " -> <<"%", "2", "0">>
                [] t = "&" -> <<"%", "2", "6">>
                [] t = "/" -> <<"%", "2", "F">>
                [] t = "?" -> <<"%", "3", "F">>
                [] t = "=" -> <<"%", "3", "D">>
                [] t = "://" -> <<"%", "3", "A", "%", "2", "F", "%", "2", "F">>]

RECURSIVE encodeURIComponent(_)
encodeURIComponent(s) ==
    IF s = <<>> THEN <<>>
    ELSE (IF Head(s) \in DOMAIN Escapes THEN Escapes[Head(s)] ELSE <<Head(s)>>)
         \o encodeURIComponent(Tail(s))

\* qs.stringify of an object given as its <<key, value>> pairs in order.
RECURSIVE stringify(_)
stringify(q) ==
    IF q = <<>> THEN <<>>
    ELSE <<q[1][1], "=">> \o encodeURIComponent(q[1][2])
         \o (IF Len(q) > 1 THEN <<"&">> ELSE <<>>) \o stringify(Tail(q))

\* The length of the run of characters other than "/" in s from i.
RECURSIVE SegLen(_, _)
SegLen(s, i) ==
    IF i <= Len(s) /\ s[i] # "/" THEN 1 + SegLen(s, i + 1) ELSE 0

\* The segments of a path: the non-empty runs between its slashes.
RECURSIVE Segments(_, _)
Segments(s, i) ==
    IF i > Len(s) THEN <<>>
    ELSE IF s[i] = "/" THEN Segments(s, i + 1)
    ELSE <<SubSeq(s, i, i + SegLen(s, i) - 1)>>
         \o Segments(s, i + SegLen(s, i))

----------------------------------------------------------------------------
(* Configuration: what config(...) and config.isEnabled(...) answer.  It   *)
(* is read at every call and never written by the pipeline.                *)

Envs == {"development", "production"}

Configs ==
    [env : Envs, wpcom_user_bootstrap : BOOLEAN, reader : BOOLEAN,
     codeSplitting : BOOLEAN]

login_url == "https://wordpress.com/wp-login.php"
hostname == "calypso.localhost"
discover_logged_out_redirect_url == "https://discover.wordpress.com"
i18n_default_locale_slug == "en"

URL_BASE_PATH == "/calypso"
SERVER_BASE_PATH == "/public"

----------------------------------------------------------------------------
(* The section manifest, sectionsModule.get(): an input of the pipeline.   *)
(* The manifest of the model holds a section of every kind the             *)
(* registration loop tells apart.                                          *)

PathRoot == <<"/">>
PathStats == <<"/", "s", "t", "a", "t", "s">>
PathStart == <<"/", "s", "t", "a", "r", "t">>
PathDesign == <<"/", "d", "e", "s", "i", "g", "n">>
PathDiscover == <<"/", "d", "i", "s", "c", "o", "v", "e", "r">>
PathPlans == <<"/", "p", "l", "a", "n", "s">>
PathTheme == <<"/", "t", "h", "e", "m", "e">>
PathNowhere == <<"/", "n", "o", "w", "h", "e", "r", "e">>

Manifest == <<
    [name |-> "reader", paths |-> <<PathRoot, PathDiscover>>,
     module |-> "reader", isomorphic |-> FALSE, enableLoggedOut |-> FALSE],
    [name |-> "stats", paths |-> <<PathStats>>,
     module |-> "my-sites/stats", isomorphic |-> FALSE, enableLoggedOut |-> FALSE],
    [name |-> "plans", paths |-> <<PathPlans>>,
     module |-> "my-sites/plans", isomorphic |-> FALSE, enableLoggedOut |-> FALSE],
    [name |-> "signup", paths |-> <<PathStart>>,
     module |-> "signup", isomorphic |-> FALSE, enableLoggedOut |-> TRUE],
    [name |-> "themes", paths |-> <<PathDesign>>,
     module |-> "my-sites/themes", isomorphic |-> TRUE, enableLoggedOut |-> TRUE] >>

\* The allow-list the legacy rewriter assigns to `sections` (line 257).
posts == <<"p", "o", "s", "t", "s">>
pages == <<"p", "a", "g", "e", "s">>
sharing == <<"s", "h", "a", "r", "i", "n", "g">>
upgrade == <<"u", "p", "g", "r", "a", "d", "e">>
checkout == <<"c", "h", "e", "c", "k", "o", "u", "t">>
ChangeTheme == <<"c", "h", "a", "n", "g", "e", "-", "t", "h", "e", "m", "e">>

LegacySections == <<posts, pages, sharing, upgrade, checkout, ChangeTheme>>

\* Array.prototype.indexOf(x) # -1.
Includes(list, x) == \E i \in 1..Len(list) : list[i] = x

----------------------------------------------------------------------------
(* The route table: what module.exports registers on the app, in order.    *)

Route(kind, path, section, gate) ==
    [kind |-> kind, path |-> path, section |-> section, gate |-> gate]

\* Line 309: the auth gate of a non-isomorphic section.
SectionGate(section) ==
    IF section.enableLoggedOut THEN "setUpRoute" ELSE "setUpLoggedInRoute"

\* serverRouter( app, setUpRoute, section ), line 314: the sub-router of an
\* isomorphic section is handed setUpRoute as its auth gate.
IsomorphicGate(section) == "setUpRoute"

\* Lines 298-311: the handlers of one path of a section.
PathRoutes(section, path) ==
    <<Route("chunk", path, section.name, "")>>
    \o (IF ~section.isomorphic
        THEN <<Route("gate", path, section.name, SectionGate(section)),
               Route("render", path, section.name, "")>>
        ELSE <<>>)

\* Lines 313-315: the routes an isomorphic section's module registers
\* through its sub-router, each behind the gate and before the renderer.
RECURSIVE IsomorphicRoutes(_, _)
IsomorphicRoutes(section, i) ==
    IF i > Len(section.paths) THEN <<>>
    ELSE <<Route("gate", section.paths[i], section.name, IsomorphicGate(section)),
           Route("render", section.paths[i], section.name, "")>>
         \o IsomorphicRoutes(section, i + 1)

RECURSIVE PathsRoutes(_, _)
PathsRoutes(section, i) ==
    IF i > Len(section.paths) THEN <<>>
    ELSE PathRoutes(section, section.paths[i]) \o PathsRoutes(section, i + 1)

\* Lines 296-316: sections.forEach.
RECURSIVE SectionRoutes(_, _)
SectionRoutes(list, i) ==
    IF i > Len(list) THEN <<>>
    ELSE PathsRoutes(list[i], 1)
         \o (IF list[i].isomorphic THEN IsomorphicRoutes(list[i], 1) ELSE <<>>)
         \o SectionRoutes(list, i + 1)

\* A registration with the catch-all ahead of the section routes.
RoutesCatchAllFirst(c) ==
    <<Route("homepage", PathRoot, "", ""),
      Route("legacy", <<>>, "", "")>>
    \o (IF c.env # "development"
        THEN <<Route("discover", PathDiscover, "", ""),
               Route("plans", PathPlans, "", "")>>
        ELSE <<>>)
    \o <<Route("theme", PathTheme, "", ""),
         Route("404", <<>>, "", "")>>
    \o SectionRoutes(Manifest, 1)

\* Lines 238-322.
Routes(c) ==
    <<Route("homepage", PathRoot, "", ""),
      Route("legacy", <<>>, "", "")>>
    \o (IF c.env # "development"
        THEN <<Route("discover", PathDiscover, "", ""),
               Route("plans", PathPlans, "", "")>>
        ELSE <<>>)
    \o <<Route("theme", PathTheme, "", "")>>
    \o SectionRoutes(Manifest, 1)
    \o <<Route("404", <<>>, "", "")>>

----------------------------------------------------------------------------
(* Requests, as Express hands them to a handler.  Every request is a GET.  *)
(* query is req.query as its <<key, value>> pairs in order; cookie is      *)
(* whether req.cookies.wordpress_logged_in is set; proto is the            *)
(* X-Forwarded-Proto header.                                               *)

PathUpgrade == <<"/", "s", "i", "t", "e", "s", "/", "1", "2", "3", "/", "u", "p", "g", "r", "a", "d", "e">>
PathChangeTheme == <<"/", "s", "i", "t", "e", "s", "/", "1", "2", "3", "/", "c", "h", "a", "n", "g", "e", "-", "t", "h", "e", "m", "e">>
PathUnknown == <<"/", "s", "i", "t", "e", "s", "/", "1", "2", "3", "/", "u", "n", "k", "n", "o", "w", "n", "-", "s", "e", "c", "t", "i", "o", "n">>
PathUnderscore == <<"/", "s", "i", "t", "e", "s", "/", "m", "y", "_", "s", "i", "t", "e", "/", "p", "o", "s", "t", "s">>
PathDeep == <<"/", "s", "i", "t", "e", "s", "/", "a", ".", "b", "/", "p", "o", "s", "t", "s", "/", "n", "e", "w">>

hello == <<"h", "e", "l", "l", "o">>
invite == <<"w", "p", "c", "o", "m", "-", "i", "n", "v", "i", "t", "e", "-", "u", "s", "e", "r", "s">>
jetpack == <<"j", "e", "t", "p", "a", "c", "k">>

\* The query strings of the model's requests for the root path: the legacy
\* parameters alone and in the combinations that decide their precedence.
RootQueries ==
    { <<>>,
      << <<"s", hello>> >>,
      << <<"q", <<"a", " ", "b">> >> >>,
      << <<"s", <<>> >>, <<"q", hello>> >>,
      << <<"s", hello>>, <<"newuseremail", <<"1">> >> >>,
      << <<"newuseremail", <<"1">> >> >>,
      << <<"newuseremail", <<"1">> >>, <<"action", invite>> >>,
      << <<"action", invite>> >>,
      << <<"action", hello>> >>,
      << <<"debug", <<>> >> >> }

PlansQueries ==
    { <<>>, << <<"for", jetpack>> >>, << <<"for", hello>> >> }

SectionQueries ==
    { <<>>, << <<"s", hello>> >>, << <<"debug", <<"1">> >> >> }

LegacyPaths ==
    {PathUpgrade, PathChangeTheme, PathUnknown, PathUnderscore, PathDeep}

Urls ==
    ({PathRoot} \X RootQueries)
    \cup ({PathPlans} \X PlansQueries)
    \cup ({PathStats} \X SectionQueries)
    \cup ({PathStart} \X {<<>>, << <<"debug", <<"1">> >> >>})
    \cup ({PathDesign, PathDiscover, PathTheme, PathNowhere} \X {<<>>})
    \cup (LegacyPaths \X {<<>>})
    \cup ({PathUpgrade} \X {<< <<"s", hello>> >>})

ClientIp == <<"::ffff:", "127.0.0.1">>

Request(u, cookie, proto) ==
    [path |-> u[1], query |-> u[2], cookie |-> cookie, proto |-> proto,
     ip |-> ClientIp]

Requests ==
    { Request(u, c, "http") : u \in Urls, c \in BOOLEAN }
    \cup { Request(<<PathStats, <<>> >>, c, "https") : c \in BOOLEAN }

\* The requests of the specification that follows the asset resolver: one
\* for every handler of the pipeline.
AssetRequests ==
    { Request(<<path, <<>> >>, FALSE, "http") :
        path \in {PathStart, PathDiscover, PathPlans, PathTheme, PathNowhere,
                  PathUpgrade} }
    \cup { Request(<<PathRoot, <<>> >>, TRUE, "http") }

NoRequest == Request(<< <<>>, <<>> >>, FALSE, "")

\* req.query[k] !== undefined.
HasParam(q, k) == \E i \in 1..Len(q) : q[i][1] = k

\* req.query[k], the empty string when it is undefined (the code reads a
\* parameter for its truth value or compares it with a non-empty literal).
Param(q, k) ==
    IF HasParam(q, k) THEN q[CHOOSE i \in 1..Len(q) : q[i][1] = k][2] ELSE <<>>

\* req.originalUrl.
originalUrl(r) ==
    r.path \o (IF r.query = <<>> THEN <<>> ELSE <<"?">> \o stringify(r.query))

\* utils.pathToRegExp( path ): the root path matches itself alone, any
\* other path itself and what lies below it.
pathToRegExp(pattern, path) ==
    IF pattern = PathRoot THEN path = PathRoot
    ELSE \/ path = pattern
         \/ /\ Len(path) > Len(pattern)
            /\ HasAt(path, 1, pattern)
            /\ path[Len(pattern) + 1] = "/"

\* Express: the path matches the mount path /sites/:site/:section.
MatchesSites(r) ==
    /\ HasAt(r.path, 1, <<"/", "s", "i", "t", "e", "s", "/">>)
    /\ Len(Segments(r.path, 1)) >= 3

\* Express: the route matches the request.  app.get( '/x' ) matches the
\* path itself; app.use( '/sites/:site/:section' ) matches every path
\* that starts with three segments, the first of them `sites`.
Matches(route, r) ==
    CASE route.kind \in {"homepage", "discover", "plans", "theme"} ->
            r.path = route.path
      [] route.kind = "legacy" -> MatchesSites(r)
      [] route.kind \in {"chunk", "gate", "render"} ->
            pathToRegExp(route.path, r.path)
      [] route.kind = "404" -> TRUE

\* req.params of the legacy route.
ParamSite(r) == Segments(r.path, 1)[2]
ParamSection(r) == Segments(r.path, 1)[3]

----------------------------------------------------------------------------
(* Objects.  A JavaScript object is a function from its keys; an undefined *)
(* object is the empty function.                                           *)

\* Object.assign( {}, a, b ).
Assign(a, b) == b @@ a

\* s.replace( tok, repl ): the first occurrence of the token is replaced.
RECURSIVE ReplaceFirst(_, _, _)
ReplaceFirst(s, tok, repl) ==
    IF s = <<>> THEN <<>>
    ELSE IF Head(s) = tok THEN repl \o Tail(s)
    ELSE <<Head(s)>> \o ReplaceFirst(Tail(s), tok, repl)

----------------------------------------------------------------------------
(* The asset URL resolver, lines 28-101.                                   *)

\* Lines 28-35: the path of every static file.
staticFiles(env) ==
    << <<"style.css">>,
       <<"editor.css">>,
       <<"tinymce/skins/wordpress/wp-content.css">>,
       <<"style-debug.css">>,
       <<"style-rtl.css">>,
       <<"vendor.", env, ".js">> >>

StaticPaths(env) == { staticFiles(env)[i] : i \in 1..Len(staticFiles(env)) }

\* file.hash of a file that was never hashed (undefined).
NoHash == ""

\* The bundle manifests app.get( 'assets' ) can hold: a named entry chunk
\* and an unnamed commons chunk, of one build or of the next.
Assets(build) ==
    << [name |-> <<"build">>,
        url |-> <<"/calypso/", "build", ".", build, ".js">>],
       [name |-> <<>>,
        url |-> <<"/calypso/", "commons", ".", build, ".js">>] >>

Builds == {"b1", "b2"}

\* Lines 44-58: the first ten digits of the MD5 of the file's content, or
\* the time when the file cannot be read.
hashFile(path) ==
    IF fs[path].readable
    THEN "md5:" \o ToString(fs[path].content)
    ELSE ToString(clock)

\* generateStaticUrls without the test of line 76: the file is hashed at
\* every call.
FileHashUncached(path) == hashFile(path)

\* Lines 76-78: the file's token, computed when the file has none yet.
FileHash(path) ==
    IF fileHash[path] = NoHash THEN hashFile(path) ELSE fileHash[path]

\* generateStaticUrls without the assignment of line 77: the token is
\* computed and not kept.
FileHashesNotStored == fileHash

\* The cache after staticFiles.forEach of generateStaticUrls.
FileHashes == [path \in DOMAIN fileHash |-> FileHash(path)]

\* Lines 69-73.
getUrl(filename, hash) ==
    <<URL_BASE_PATH, "/">> \o filename \o <<"?">> \o stringify(<< <<"v", <<hash>> >> >>)

\* Lines 89-93: the asset's name, or the one derived from its URL by
\* replace( /\/calypso\/(\w+)\..*/, '_$1' ).
AssetName(asset) ==
    IF asset.name # <<>> THEN asset.name
    ELSE IF /\ Len(asset.url) >= 3
            /\ asset.url[1] = "/calypso/"
            /\ asset.url[3] = "."
         THEN <<"_", asset.url[2]>>
         ELSE asset.url

\* Lines 88-98: assets.forEach.
RECURSIVE AssetUrls(_, _, _)
AssetUrls(urls, list, env) ==
    IF list = <<>> THEN urls
    ELSE LET name == AssetName(Head(list))
             plain == Assign(urls, [k \in {name} |-> Head(list).url])
             both == IF env # "development"
                     THEN Assign(plain,
                            [k \in {name \o <<"-min">>} |->
                               ReplaceFirst(Head(list).url, ".js", <<".m.js">>)])
                     ELSE plain
         IN  AssetUrls(both, Tail(list), env)

\* Lines 66-101: the map of asset names to URLs.  The call also leaves
\* FileHashes as the cache.
generateStaticUrls ==
    LET vendorFile == <<"vendor.", cfg.env, ".js">>
        static == [path \in DOMAIN fileHash |-> getUrl(path, FileHash(path))]
        vendor == Assign(static, [k \in {<<"vendor">>} |-> static[vendorFile]])
        vendorMin == Assign(vendor,
                       [k \in {<<"vendor-min">>} |->
                          ReplaceFirst(vendor[<<"vendor">>], ".js", <<".m.js">>)])
    IN  AssetUrls(vendorMin, assets, cfg.env)

----------------------------------------------------------------------------
(* The context builder, lines 103-123.                                     *)

\* The value false of context.user.
False == [false |-> TRUE]

\* A context builder whose isDebug is also true in development.
getDefaultContextDebugInDevelopment ==
    LET base == Assign(context,
                  [compileDebug |-> cfg.env = "development",
                   urls |-> generateStaticUrls,
                   user |-> False,
                   isDebug |-> cfg.env = "development"
                               \/ HasParam(req.query, "debug"),
                   lang |-> i18n_default_locale_slug,
                   jsFile |-> "build",
                   store |-> "createReduxStore()"])
    IN  Assign(base,
          [app |-> [clientIp |-> IF req.ip # <<>>
                                 THEN ReplaceFirst(req.ip, "::ffff:", <<>>)
                                 ELSE req.ip,
                    isDebug |-> cfg.env = "development" \/ base.isDebug,
                    tinymceWpSkin |->
                        base.urls[<<"tinymce/skins/wordpress/wp-content.css">>],
                    tinymceEditorCss |-> base.urls[<<"editor.css">>]]])

\* A context builder that starts from an empty object instead of
\* request.context.
getDefaultContextFresh ==
    LET base == [compileDebug |-> cfg.env = "development",
                 urls |-> generateStaticUrls,
                 user |-> False,
                 isDebug |-> HasParam(req.query, "debug"),
                 lang |-> i18n_default_locale_slug,
                 jsFile |-> "build",
                 store |-> "createReduxStore()"]
    IN  Assign(base,
          [app |-> [clientIp |-> IF req.ip # <<>>
                                 THEN ReplaceFirst(req.ip, "::ffff:", <<>>)
                                 ELSE req.ip,
                    isDebug |-> cfg.env = "development" \/ base.isDebug,
                    tinymceWpSkin |->
                        base.urls[<<"tinymce/skins/wordpress/wp-content.css">>],
                    tinymceEditorCss |-> base.urls[<<"editor.css">>]]])

\* Lines 103-123.
getDefaultContext ==
    LET base == Assign(context,
                  [compileDebug |-> cfg.env = "development",
                   urls |-> generateStaticUrls,
                   user |-> False,
                   isDebug |-> HasParam(req.query, "debug"),
                   lang |-> i18n_default_locale_slug,
                   jsFile |-> "build",
                   store |-> "createReduxStore()"])
    IN  Assign(base,
          [app |-> [clientIp |-> IF req.ip # <<>>
                                 THEN ReplaceFirst(req.ip, "::ffff:", <<>>)
                                 ELSE req.ip,
                    isDebug |-> cfg.env = "development" \/ base.isDebug,
                    tinymceWpSkin |->
                        base.urls[<<"tinymce/skins/wordpress/wp-content.css">>],
                    tinymceEditorCss |-> base.urls[<<"editor.css">>]]])

----------------------------------------------------------------------------
(* Responses.                                                              *)

NoResponse ==
    [headers |-> {}, count |-> 0, status |-> 0, kind |-> "", url |-> <<>>,
     view |-> "", locals |-> <<>>]

XFrameOptions == "X-Frame-Options: SAMEORIGIN"

\* A gate that sets no header.
SetNoFrameOptions(r) == r

\* res.set( { 'X-Frame-Options': 'SAMEORIGIN' } ).
SetFrameOptions(r) == [r EXCEPT !.headers = @ \cup {XFrameOptions}]

\* res.redirect( url ): status 302.
Redirect(r, url) ==
    [r EXCEPT !.count = @ + 1, !.status = 302, !.kind = "redirect", !.url = url]

\* res.status( status ).render( view, locals ).
Render(r, status, view, locals) ==
    [r EXCEPT !.count = @ + 1, !.status = status, !.kind = "render",
              !.view = view, !.locals = locals]

\* The asset URL map the request was given: that of its context, or that
\* of the 404 view.
UrlsOf ==
    IF "urls" \in DOMAIN context THEN context.urls
    ELSE IF "urls" \in DOMAIN res.locals THEN res.locals.urls
    ELSE <<>>

----------------------------------------------------------------------------
(* The identity service (user-bootstrap): what its callback reports.       *)

NoError == [error |-> "", message |-> ""]
NoData == [ID |-> 0, localeSlug |-> "", isRTL |-> FALSE]

\* No callback yet.
NoReply == [called |-> FALSE, failed |-> FALSE, error |-> NoError, data |-> NoData]

Outcomes ==
    { [called |-> TRUE, failed |-> FALSE, error |-> NoError, data |-> d] :
        d \in { [ID |-> 1, localeSlug |-> "fr", isRTL |-> FALSE],
                [ID |-> 2, localeSlug |-> "", isRTL |-> TRUE] } }
    \cup
    { [called |-> TRUE, failed |-> TRUE, error |-> e, data |-> NoData] :
        e \in { [error |-> "authorization_required", message |-> "login"],
                [error |-> "invalid_token", message |-> "bad token"],
                [error |-> "", message |-> "socket hang up"] } }

----------------------------------------------------------------------------
(* Dispatch.  Express tries the routes in registration order and runs the  *)
(* first that matches; next() resumes the search behind it.  idx is the    *)
(* route whose handler runs next, or ran last.                             *)

\* The route table module.exports builds under each configuration.
TableOf == [c \in Configs |-> Routes(c)]

\* The route table of the app.
Table == app

\* The first route from i on that matches the request (the catch-all, the
\* last route, matches every request).
RECURSIVE NextMatch(_, _, _)
NextMatch(table, r, i) ==
    IF i >= Len(table) \/ Matches(table[i], r) THEN i
    ELSE NextMatch(table, r, i + 1)

\* The handler at idx is the one to run.
At(kind) == phase = "routing" /\ Table[idx].kind = kind

\* next(): the search resumes behind the handler that ran.
CallNext == idx' = NextMatch(Table, req, idx + 1)

Process == <<cfg, app, fs, clock, assets, events, stable, repeat, last, state,
             selected>>

\* A request arrives: the previous one, if any, has been answered.
Receive(pool) ==
    /\ phase \in {"idle", "done"}
    /\ \E r \in pool :
         /\ req' = r
         /\ repeat' = (phase = "done" /\ r = req /\ stable)
         /\ idx' = NextMatch(Table, r, 1)
    /\ last' = IF repeat' THEN UrlsOf ELSE <<>>
    /\ stable' = TRUE
    /\ context' = <<>>
    /\ gateCtx' = <<>>
    /\ res' = NoResponse
    /\ phase' = "routing"
    /\ trail' = <<>>
    /\ calls' = 0
    /\ reply' = NoReply
    /\ UNCHANGED <<cfg, app, sections, fileHash, fs, clock, assets, events,
                   state, selected>>

\* Lines 246-252: the homepage goes to /stats when the Reader is disabled.
Homepage ==
    /\ At("homepage")
    /\ trail' = Append(trail, "homepage")
    /\ IF ~cfg.reader
       THEN /\ res' = Redirect(res, PathStats)
            /\ phase' = "done"
            /\ UNCHANGED idx
       ELSE /\ CallNext
            /\ UNCHANGED <<res, phase>>
    /\ UNCHANGED <<sections, fileHash, context, gateCtx, req, calls, reply>>
    /\ UNCHANGED Process

\* Line 264: replace( /^\/sites\/[0-9a-zA-Z\-\.]+\/change\-theme/, '/themes' ).
ReplaceChangeTheme(url) ==
    LET n == RunLen(url, 8, SiteClass)
    IN
    IF /\ HasAt(url, 1, <<"/", "s", "i", "t", "e", "s", "/">>)
       /\ n >= 1
       /\ HasAt(url, 8 + n, <<"/">> \o ChangeTheme)
    THEN <<"/", "t", "h", "e", "m", "e", "s">>
         \o From(url, 8 + n + 1 + Len(ChangeTheme))
    ELSE url

\* Line 266: replace( /^\/sites\/[0-9a-zA-Z\-\.]+\/\w+/,
\*                    '/' + req.params.section + '/' + req.params.site ).
ReplaceSection(url, section, site) ==
    LET n == RunLen(url, 8, SiteClass)
        w == RunLen(url, 9 + n, WordClass)
    IN
    IF /\ HasAt(url, 1, <<"/", "s", "i", "t", "e", "s", "/">>)
       /\ n >= 1
       /\ HasAt(url, 8 + n, <<"/">>)
       /\ w >= 1
    THEN <<"/">> \o section \o <<"/">> \o site \o From(url, 9 + n + w)
    ELSE url

\* Lines 263-267: the target of the legacy redirect.
LegacyRedirectUrl(r) ==
    IF ParamSection(r) = ChangeTheme
    THEN ReplaceChangeTheme(originalUrl(r))
    ELSE ReplaceSection(originalUrl(r), ParamSection(r), ParamSite(r))

\* Lines 255-269: redirects to handle old newdash formats.
LegacyRewriter ==
    /\ At("legacy")
    /\ trail' = Append(trail, "legacy")
    /\ sections' = LegacySections
    /\ IF ~Includes(LegacySections, ParamSection(req))
       THEN /\ CallNext
            /\ UNCHANGED <<res, phase>>
       ELSE /\ res' = Redirect(res, LegacyRedirectUrl(req))
            /\ phase' = "done"
            /\ UNCHANGED idx
    /\ UNCHANGED <<fileHash, context, gateCtx, req, calls, reply>>
    /\ UNCHANGED Process

\* A /discover handler that redirects and goes on to call next().
DiscoverRedirectAndNext ==
    /\ At("discover")
    /\ trail' = Append(trail, "discover")
    /\ res' = IF ~req.cookie
              THEN Redirect(res, <<discover_logged_out_redirect_url>>)
              ELSE res
    /\ CallNext
    /\ UNCHANGED <<sections, fileHash, context, gateCtx, req, phase, calls, reply>>
    /\ UNCHANGED Process

\* Lines 272-278.
Discover ==
    /\ At("discover")
    /\ trail' = Append(trail, "discover")
    /\ IF ~req.cookie
       THEN /\ res' = Redirect(res, <<discover_logged_out_redirect_url>>)
            /\ phase' = "done"
            /\ UNCHANGED idx
       ELSE /\ CallNext
            /\ UNCHANGED <<res, phase>>
    /\ UNCHANGED <<sections, fileHash, context, gateCtx, req, calls, reply>>
    /\ UNCHANGED Process

\* A /plans handler that, given the cookie, neither responds nor calls
\* next(): the request hangs.
PlansNoNext ==
    /\ At("plans")
    /\ trail' = Append(trail, "plans")
    /\ IF ~req.cookie
       THEN /\ res' = Redirect(res, <<"https://wordpress.com/pricing">>)
            /\ phase' = "done"
       ELSE /\ phase' = "hung"
            /\ UNCHANGED res
    /\ UNCHANGED <<sections, fileHash, context, gateCtx, req, calls, reply, idx>>
    /\ UNCHANGED Process

\* Lines 280-291.
Plans ==
    /\ At("plans")
    /\ trail' = Append(trail, "plans")
    /\ IF ~req.cookie
       THEN /\ res' = Redirect(res,
                        IF Param(req.query, "for") = jetpack
                        THEN <<"https://wordpress.com/wp-login.php?redirect_to=https%3A%2F%2Fwordpress.com%2Fplans">>
                        ELSE <<"https://wordpress.com/pricing">>)
            /\ phase' = "done"
            /\ UNCHANGED idx
       ELSE /\ CallNext
            /\ UNCHANGED <<res, phase>>
    /\ UNCHANGED <<sections, fileHash, context, gateCtx, req, calls, reply>>
    /\ UNCHANGED Process

\* Line 294.
Theme ==
    /\ At("theme")
    /\ trail' = Append(trail, "theme")
    /\ res' = Redirect(res, PathDesign)
    /\ phase' = "done"
    /\ UNCHANGED idx
    /\ UNCHANGED <<sections, fileHash, context, gateCtx, req, calls, reply>>
    /\ UNCHANGED Process

\* Lines 301-306: the first handler of a section's path.
SectionChunk ==
    /\ At("chunk")
    /\ trail' = Append(trail, "chunk")
    /\ context' = IF cfg.codeSplitting
                  THEN Assign(context, [chunk |-> Table[idx].section])
                  ELSE context
    /\ CallNext
    /\ UNCHANGED <<sections, fileHash, gateCtx, req, res, phase, calls, reply>>
    /\ UNCHANGED Process

----------------------------------------------------------------------------
(* The auth gate, lines 125-230.                                           *)

\* Lines 125-132.
setUpLoggedOutRoute(tr) ==
    /\ trail' = tr \o <<"setUpLoggedOutRoute">>
    /\ context' = getDefaultContext
    /\ fileHash' = FileHashes
    /\ res' = SetFrameOptions(res)
    /\ CallNext
    /\ UNCHANGED <<gateCtx, phase, calls>>

\* Lines 146-150: the login URL, with the request's URL to come back to.
LoginRedirectUrl(r) ==
    <<login_url, "?">>
    \o stringify(<< <<"redirect_to",
                      <<(IF r.proto = "https" THEN "https" ELSE "http"),
                        "://", hostname>> \o originalUrl(r)>> >>)

\* Lines 134-221, up to the identity-service call being issued, for the
\* answers of config( 'wpcom_user_bootstrap' ) and of
\* req.cookies.wordpress_logged_in.
LoggedInRoute(tr, bootstrap, cookie) ==
    /\ trail' = tr \o <<"setUpLoggedInRoute">>
    /\ fileHash' = FileHashes
    /\ IF bootstrap
       THEN IF ~cookie
            THEN /\ res' = Redirect(SetFrameOptions(res), LoginRedirectUrl(req))
                 /\ phase' = "done"
                 /\ UNCHANGED <<context, gateCtx, calls, idx>>
            ELSE /\ res' = SetFrameOptions(res)
                 /\ gateCtx' = getDefaultContext
                 /\ calls' = calls + 1
                 /\ phase' = "pending"
                 /\ UNCHANGED <<context, idx>>
       ELSE /\ res' = SetFrameOptions(res)
            /\ context' = getDefaultContext
            /\ CallNext
            /\ UNCHANGED <<gateCtx, phase, calls>>

\* setUpLoggedInRoute without the cookie test of lines 154-158.
setUpLoggedInRouteUnchecked(tr) ==
    LoggedInRoute(tr, cfg.wpcom_user_bootstrap, TRUE)

\* setUpLoggedInRoute without the configuration test of line 143.
setUpLoggedInRouteAlwaysBootstrap(tr) ==
    LoggedInRoute(tr, TRUE, req.cookie)

setUpLoggedInRoute(tr) ==
    LoggedInRoute(tr, cfg.wpcom_user_bootstrap, req.cookie)

\* setUpRoute without its cookie test: every request takes the logged-in
\* path.
setUpRouteAlwaysLoggedIn(tr) == setUpLoggedInRoute(tr \o <<"setUpRoute">>)

\* Lines 223-230.
setUpRoute(tr) ==
    IF req.cookie
    THEN setUpLoggedInRoute(tr \o <<"setUpRoute">>)
    ELSE setUpLoggedOutRoute(tr \o <<"setUpRoute">>)

\* The gate of a section's route runs (line 309, or the sub-router).
Gate ==
    /\ At("gate")
    /\ IF Table[idx].gate = "setUpRoute"
       THEN setUpRoute(trail)
       ELSE setUpLoggedInRoute(trail)
    /\ UNCHANGED <<sections, req, reply>>
    /\ UNCHANGED Process

\* Lines 187-192: the context with the user the service returned.
UserContext(ctx, data) ==
    LET c == Assign(ctx, [user |-> data, isRTL |-> data.isRTL])
    IN  IF data.localeSlug # "" THEN Assign(c, [lang |-> data.localeSlug]) ELSE c

\* Line 195: req.query.s || req.query.q.
SearchParam(q) == IF Param(q, "s") # <<>> THEN Param(q, "s") ELSE Param(q, "q")

\* The legacy redirects without the path test of line 194.
LegacyQueryRedirectAnyPath(r, ctx) ==
    IF SearchParam(r.query) # <<>>
    THEN <<"https://", ctx.lang, ".search.wordpress.com/?q=">>
         \o encodeURIComponent(SearchParam(r.query))
    ELSE IF Param(r.query, "newuseremail") # <<>>
    THEN <<"https://wordpress.com/verify-email/?">> \o stringify(r.query)
    ELSE IF Param(r.query, "action") = invite
    THEN <<"https://wordpress.com/accept-invite/?">> \o stringify(r.query)
    ELSE <<>>

\* Lines 194-212: the legacy redirect of a root-path query, or none (the
\* empty string).
LegacyQueryRedirect(r, ctx) ==
    IF r.path # PathRoot THEN <<>>
    ELSE IF SearchParam(r.query) # <<>>
    THEN <<"https://", ctx.lang, ".search.wordpress.com/?q=">>
         \o encodeURIComponent(SearchParam(r.query))
    ELSE IF Param(r.query, "newuseremail") # <<>>
    THEN <<"https://wordpress.com/verify-email/?">> \o stringify(r.query)
    ELSE IF Param(r.query, "action") = invite
    THEN <<"https://wordpress.com/accept-invite/?">> \o stringify(r.query)
    ELSE <<>>

\* An error branch without the test of line 166: every error is a 500.
ErrorResponseAlways500(r, error, ctx) == Render(r, 500, "500", ctx)

\* Lines 165-182: the response to an error of the identity service.
ErrorResponse(r, error, ctx) ==
    IF error.error = "authorization_required"
    THEN Redirect(r, LoginRedirectUrl(req))
    ELSE Render(r, 500, "500", ctx)

\* A callback that issues the call again when the service reports an error.
UserCallbackRetry ==
    /\ phase = "pending"
    /\ trail' = Append(trail, "user-callback")
    /\ \E o \in Outcomes :
         /\ reply' = o
         /\ IF o.failed
            THEN /\ calls' = calls + 1
                 /\ UNCHANGED <<res, phase, context, idx, gateCtx>>
            ELSE /\ context' = UserContext(gateCtx, o.data)
                 /\ phase' = "routing"
                 /\ gateCtx' = <<>>
                 /\ CallNext
                 /\ UNCHANGED <<res, calls>>
    /\ UNCHANGED <<sections, fileHash, req>>
    /\ UNCHANGED Process

\* Lines 162-216: the callback of the identity-service call.
UserCallback ==
    /\ phase = "pending"
    /\ trail' = Append(trail, "user-callback")
    /\ \E o \in Outcomes :
         /\ reply' = o
         /\ IF o.failed
            THEN /\ res' = ErrorResponse(res, o.error, gateCtx)
                 /\ phase' = "done"
                 /\ UNCHANGED <<context, idx>>
            ELSE IF LegacyQueryRedirect(req, UserContext(gateCtx, o.data)) # <<>>
            THEN /\ res' = Redirect(res,
                             LegacyQueryRedirect(req, UserContext(gateCtx, o.data)))
                 /\ phase' = "done"
                 /\ UNCHANGED <<context, idx>>
            ELSE /\ context' = UserContext(gateCtx, o.data)
                 /\ phase' = "routing"
                 /\ CallNext
                 /\ UNCHANGED res
    /\ gateCtx' = <<>>
    /\ UNCHANGED <<sections, fileHash, req, calls>>
    /\ UNCHANGED Process

\* serverRender, the last handler of a section's route: the section's
\* page, rendered with req.context.
serverRender ==
    /\ At("render")
    /\ trail' = Append(trail, "serverRender")
    /\ res' = Render(res, 200, "index", context)
    /\ phase' = "done"
    /\ UNCHANGED idx
    /\ UNCHANGED <<sections, fileHash, context, gateCtx, req, calls, reply>>
    /\ UNCHANGED Process

\* A catch-all that renders the view without response.status( 404 ).
render404NoStatus ==
    /\ At("404")
    /\ trail' = Append(trail, "render404")
    /\ res' = Render(res, 200, "404", [urls |-> generateStaticUrls])
    /\ fileHash' = FileHashes
    /\ phase' = "done"
    /\ UNCHANGED idx
    /\ UNCHANGED <<sections, context, gateCtx, req, calls, reply>>
    /\ UNCHANGED Process

\* Lines 232-236 and 319: the catch-all.
render404 ==
    /\ At("404")
    /\ trail' = Append(trail, "render404")
    /\ res' = Render(res, 404, "404", [urls |-> generateStaticUrls])
    /\ fileHash' = FileHashes
    /\ phase' = "done"
    /\ UNCHANGED idx
    /\ UNCHANGED <<sections, context, gateCtx, req, calls, reply>>
    /\ UNCHANGED Process

----------------------------------------------------------------------------
(* The environment of the process: the files under public/, the clock and  *)
(* the bundle manifest.  The handlers of a request run in one turn of the  *)
(* event loop, up to the identity-service call and again from its          *)
(* callback: the environment is seen to change between requests and while  *)
(* a call is pending.                                                      *)

BetweenTurns == phase # "routing"

\* The static files the environment of the model writes and removes: one
\* the build produced and one it did not.
Volatile == { <<"style.css">>, <<"style-debug.css">> }

Handling == <<app, sections, fileHash, req, context, gateCtx, res, phase, idx,
              trail, calls, reply, last, state, selected>>

\* A static file is written: it is readable and its content is new.
WriteFile ==
    /\ BetweenTurns
    /\ events < MaxEvents
    /\ \E path \in Volatile :
         fs' = [fs EXCEPT ![path] = [readable |-> TRUE, content |-> @.content + 1]]
    /\ events' = events + 1
    /\ stable' = FALSE
    /\ repeat' = FALSE
    /\ UNCHANGED <<cfg, clock, assets>>
    /\ UNCHANGED Handling

\* A static file is removed: it cannot be read.
UnlinkFile ==
    /\ BetweenTurns
    /\ events < MaxEvents
    /\ \E path \in Volatile :
         /\ fs[path].readable
         /\ fs' = [fs EXCEPT ![path].readable = FALSE]
    /\ events' = events + 1
    /\ stable' = FALSE
    /\ repeat' = FALSE
    /\ UNCHANGED <<cfg, clock, assets>>
    /\ UNCHANGED Handling

\* The bundler rebuilds: app.set( 'assets', ... ) with the next build.
Rebuild ==
    /\ BetweenTurns
    /\ events < MaxEvents
    /\ \E b \in Builds :
         /\ Assets(b) # assets
         /\ assets' = Assets(b)
    /\ events' = events + 1
    /\ stable' = FALSE
    /\ repeat' = FALSE
    /\ UNCHANGED <<cfg, clock, fs>>
    /\ UNCHANGED Handling

\* Time passes.
Tick ==
    /\ BetweenTurns
    /\ clock < MaxClock
    /\ clock' = clock + 1
    /\ UNCHANGED <<cfg, fs, assets, events, stable, repeat>>
    /\ UNCHANGED Handling

----------------------------------------------------------------------------
(* The login selectors (state/login/selectors).  A JavaScript value is a   *)
(* record that names its type; a key an object does not hold reads as      *)
(* undefined.                                                              *)

Undefined == [type |-> "undefined"]
Null == [type |-> "null"]
Bool(b) == [type |-> "boolean", b |-> b]
Str(s) == [type |-> "string", s |-> s]

\* The values a success flag of state.login can hold.
Flags == {Undefined, Null, Bool(TRUE), Bool(FALSE)}

\* The values of two_step_id and two_step_nonce.
TwoStepValues == {Undefined, Str(""), Str("1a2b")}

\* state.login.twoFactorAuth: unset, null, or the object of the login
\* response.
TwoFactorAuths ==
    {Undefined, Null}
    \cup [type : {"object"}, two_step_id : TwoStepValues,
          two_step_nonce : TwoStepValues]

\* The global state trees of the model: without login, or with one.
NoLogin == [type |-> "object", login |-> Undefined]

States ==
    { NoLogin }
    \cup { [type |-> "object", login |-> l] :
             l \in [type : {"object"}, twoFactorAuth : TwoFactorAuths,
                    requestSuccess : Flags,
                    verificationCodeSubmissionSuccess : Flags] }

\* !! v.
Truthy(v) ==
    CASE v.type = "boolean" -> v.b
      [] v.type = "string" -> v.s # ""
      [] v.type = "object" -> TRUE
      [] OTHER -> FALSE

\* lodash get( object, [ key ], default ): the default for a value that
\* resolves to undefined.
get(object, key, default) ==
    IF object.type # "object" THEN default
    ELSE IF object[key] = Undefined THEN default
    ELSE object[key]

\* Lines 46-57.
isTwoFactorEnabled(st) ==
    LET twoFactorAuth == get(get(st, "login", Undefined), "twoFactorAuth", Undefined)
    IN  IF ~Truthy(twoFactorAuth) THEN Null
        ELSE Bool(/\ twoFactorAuth.two_step_id # Str("")
                  /\ twoFactorAuth.two_step_nonce # Str(""))

\* A selector that reads requestSuccess whatever the login step.
isLoginSuccessfulByRequest(st) ==
    get(get(st, "login", Undefined), "requestSuccess", Bool(FALSE))

\* Lines 76-80.
isLoginSuccessful(st) ==
    IF Truthy(isTwoFactorEnabled(st))
    THEN get(get(st, "login", Undefined), "verificationCodeSubmissionSuccess",
             Bool(FALSE))
    ELSE get(get(st, "login", Undefined), "requestSuccess", Bool(FALSE))

NotSelected == [selector |-> "", value |-> Undefined]

\* A component calls isTwoFactorEnabled( state ).
SelectIsTwoFactorEnabled ==
    /\ selected' = [selector |-> "isTwoFactorEnabled",
                    value |-> isTwoFactorEnabled(state)]
    /\ UNCHANGED <<cfg, app, sections, fileHash, fs, clock, assets, req,
                   context, gateCtx, res, phase, idx, trail, calls, reply,
                   last, repeat, stable, events, state>>

\* A component calls isLoginSuccessful( state ).
SelectIsLoginSuccessful ==
    /\ selected' = [selector |-> "isLoginSuccessful",
                    value |-> isLoginSuccessful(state)]
    /\ UNCHANGED <<cfg, app, sections, fileHash, fs, clock, assets, req,
                   context, gateCtx, res, phase, idx, trail, calls, reply,
                   last, repeat, stable, events, state>>

----------------------------------------------------------------------------
(* The specifications.                                                     *)

\* The state once module.exports has built the app: the manifest is
\* loaded, no file is hashed, no request was received.  `missing` are the
\* static files the build did not produce.
Start(configs, missing) ==
    /\ cfg \in configs
    /\ app = TableOf[cfg]
    /\ sections = Manifest
    /\ fileHash = [path \in StaticPaths(cfg.env) |-> NoHash]
    /\ fs = [path \in StaticPaths(cfg.env) |->
               [readable |-> path \notin missing, content |-> 0]]
    /\ clock = 0
    /\ assets = Assets("b1")
    /\ req = NoRequest
    /\ context = <<>>
    /\ gateCtx = <<>>
    /\ res = NoResponse
    /\ phase = "idle"
    /\ idx = 1
    /\ trail = <<>>
    /\ calls = 0
    /\ reply = NoReply
    /\ last = <<>>
    /\ repeat = FALSE
    /\ stable = TRUE
    /\ events = 0

\* The state tree the selectors are given, none applied yet.
Loaded(states) ==
    /\ state \in states
    /\ selected = NotSelected

Handlers ==
    \/ Homepage
    \/ LegacyRewriter
    \/ Discover
    \/ Plans
    \/ Theme
    \/ SectionChunk
    \/ Gate
    \/ UserCallback
    \/ serverRender
    \/ render404

\* The pipeline under every configuration and every request of the model,
\* the files as the build left them.
Init == Start(Configs, {}) /\ Loaded({NoLogin})

Next == Receive(Requests) \/ Handlers

Spec == Init /\ [][Next]_vars

\* The pipeline with its scheduling: a handler whose turn has come runs
\* (Node runs a handler to its end and Express calls the next one in the
\* same turn), the identity service calls back for every call issued, and
\* the renderer responds.  Requests need not arrive.  The requests are
\* one or two for every handler and every way a request ends.
LiveConfigs ==
    [env : Envs, wpcom_user_bootstrap : BOOLEAN, reader : BOOLEAN,
     codeSplitting : {FALSE}]

LiveRequests ==
    { Request(<<path, <<>> >>, c, "http") :
        path \in {PathRoot, PathStats, PathStart, PathDesign, PathPlans,
                  PathDiscover},
        c \in BOOLEAN }
    \cup { Request(<<path, <<>> >>, FALSE, "http") :
             path \in {PathTheme, PathNowhere, PathUpgrade, PathUnknown,
                       PathUnderscore} }
    \cup { Request(<<PathRoot, << <<"s", hello>> >> >>, TRUE, "http") }

InitLive == Start(LiveConfigs, {}) /\ Loaded({NoLogin})

NextLive == Receive(LiveRequests) \/ Handlers

SpecLive == InitLive /\ [][NextLive]_vars /\ WF_vars(Handlers)

\* The asset resolver under a changing environment: files written and
\* removed, the clock, the bundle manifest.
AssetConfigs ==
    [env : Envs, wpcom_user_bootstrap : {TRUE}, reader : {TRUE},
     codeSplitting : {FALSE}]

InitAssets ==
    Start(AssetConfigs, {<<"style-debug.css">>}) /\ Loaded({NoLogin})

NextAssets ==
    \/ Receive(AssetRequests)
    \/ Handlers
    \/ WriteFile
    \/ UnlinkFile
    \/ Rebuild
    \/ Tick

SpecAssets == InitAssets /\ [][NextAssets]_vars

\* The login selectors applied to every state tree of the model.
LoginConfigs ==
    [env : {"production"}, wpcom_user_bootstrap : {TRUE}, reader : {TRUE},
     codeSplitting : {FALSE}]

InitLogin == Start(LoginConfigs, {}) /\ Loaded(States)

NextLogin == SelectIsTwoFactorEnabled \/ SelectIsLoginSuccessful

SpecLogin == InitLogin /\ [][NextLogin]_vars

----------------------------------------------------------------------------
(* Properties of the pipeline.                                             *)

\* The handler ran for the request in flight.
InTrail(h) == \E i \in 1..Len(trail) : trail[i] = h

\* The auth gate ran for the request in flight.
GateRan == InTrail("setUpLoggedInRoute") \/ InTrail("setUpLoggedOutRoute")

\* The sections of the manifest with a path pattern the request matches.
SectionsMatching(r) ==
    { i \in 1..Len(Manifest) :
        \E k \in 1..Len(Manifest[i].paths) :
            pathToRegExp(Manifest[i].paths[k], r.path) }

\* The section whose route the request reaches.
SectionReached(r) == Manifest[CHOOSE i \in SectionsMatching(r) : TRUE]

\* C1: a request without the wordpress_logged_in cookie never has an
\* identity-service call issued for it, on any route, under any
\* configuration: none was issued and none is pending.
C1_NoCallWithoutCookie ==
    ~req.cookie => calls = 0 /\ phase # "pending" /\ ~reply.called

\* A request without the cookie went through setUpLoggedInRoute with
\* user-bootstrap enabled, and was answered.
C1_Witness ==
    /\ ~req.cookie
    /\ cfg.wpcom_user_bootstrap
    /\ InTrail("setUpLoggedInRoute")
    /\ phase = "done"

\* C2, as claimed: a request reaching a section route is processed by
\* setUpLoggedInRoute if and only if it carries the cookie, and without the
\* cookie by setUpLoggedOutRoute, with no redirect.
C2_Claimed ==
    GateRan =>
        /\ InTrail("setUpLoggedInRoute") <=> req.cookie
        /\ ~req.cookie =>
              /\ InTrail("setUpLoggedOutRoute")
              /\ res.kind # "redirect"

\* C2, as amended: behind setUpRoute (a section with enableLoggedOut, or an
\* isomorphic section) the request takes the logged-in path if and only if
\* it carries the cookie, and without it the logged-out path: default
\* context, next handler, no redirect.  A non-isomorphic section without
\* enableLoggedOut is always processed by setUpLoggedInRoute, which
\* redirects a request without the cookie to the login URL when
\* user-bootstrap is enabled.
C2_GateByCookieBehindSetUpRoute ==
    GateRan =>
        IF SectionReached(req).isomorphic \/ SectionReached(req).enableLoggedOut
        THEN /\ InTrail("setUpRoute")
             /\ InTrail("setUpLoggedInRoute") <=> req.cookie
             /\ ~req.cookie =>
                   /\ InTrail("setUpLoggedOutRoute")
                   /\ context.user = False
                   /\ res.kind # "redirect"
                   /\ Table[idx].kind = "render"
        ELSE /\ InTrail("setUpLoggedInRoute")
             /\ ~InTrail("setUpLoggedOutRoute")
             /\ (~req.cookie /\ cfg.wpcom_user_bootstrap) =>
                   /\ phase = "done"
                   /\ res.kind = "redirect"
                   /\ res.url[1] = login_url

\* A request without the cookie was rendered through setUpRoute and
\* setUpLoggedOutRoute while user-bootstrap is enabled.
C2_Witness ==
    /\ ~req.cookie
    /\ cfg.wpcom_user_bootstrap
    /\ InTrail("setUpRoute")
    /\ InTrail("setUpLoggedOutRoute")
    /\ phase = "done"
    /\ res.kind = "render"

\* The request is one a handler registered before the section routes
\* answers with a redirect.
AnsweredEarly(r) ==
    \/ r.path = PathRoot /\ ~cfg.reader
    \/ MatchesSites(r) /\ Includes(LegacySections, ParamSection(r))
    \/ /\ cfg.env # "development"
       /\ ~r.cookie
       /\ r.path \in {PathDiscover, PathPlans}
    \/ r.path = PathTheme

\* C3, as claimed: a request whose path matches no path pattern of the
\* manifest is answered 404 with the '404' view.
C3_Claimed ==
    (phase = "done" /\ SectionsMatching(req) = {}) =>
        res.kind = "render" /\ res.status = 404 /\ res.view = "404"

\* C3, as amended: a request whose path matches no path pattern of the
\* manifest is answered 404 with the '404' view, unless a handler
\* registered before the section routes answers it: /theme, an
\* allow-listed /sites/:site/:section, the homepage with the Reader
\* disabled, /discover and /plans without the cookie outside development.
\* Those are answered with a redirect.
C3_UnmatchedIs404UnlessAnsweredEarly ==
    (phase = "done" /\ SectionsMatching(req) = {}) =>
        IF AnsweredEarly(req)
        THEN res.kind = "redirect"
        ELSE res.kind = "render" /\ res.status = 404 /\ res.view = "404"

\* /sites/123/unknown-section passed the legacy rewriter and was answered
\* by the catch-all.
C3_Witness ==
    /\ phase = "done"
    /\ req.path = PathUnknown
    /\ InTrail("legacy")
    /\ res.status = 404
    /\ res.view = "404"

\* C4, as claimed, for the requests whose URL is /sites/<site>/<section>
\* and nothing more: an allow-listed section is redirected to /themes
\* (change-theme) or to /<section>/<site>; another section is passed on
\* with no redirect.
C4_Claimed ==
    (InTrail("legacy") /\ req.query = <<>> /\ Len(Segments(req.path, 1)) = 3) =>
        IF Includes(LegacySections, ParamSection(req))
        THEN /\ res.kind = "redirect"
             /\ res.url = IF ParamSection(req) = ChangeTheme
                          THEN <<"/", "t", "h", "e", "m", "e", "s">>
                          ELSE <<"/">> \o ParamSection(req) \o <<"/">>
                               \o ParamSite(req)
        ELSE /\ res.kind # "redirect"
             /\ Len(trail) > 1 \/ phase = "routing"

\* C5: when the identity service reports an error, the response is a
\* redirect to the login URL for authorization_required and the 500 view
\* with status 500 for every other error; the next handler is not called
\* and req.context holds no user.
C5_ErrorIsLoginRedirectOr500 ==
    reply.failed =>
        /\ phase = "done"
        /\ res.count = 1
        /\ IF reply.error.error = "authorization_required"
           THEN res.kind = "redirect" /\ res.url[1] = login_url
           ELSE res.kind = "render" /\ res.status = 500 /\ res.view = "500"
        /\ trail[Len(trail)] = "user-callback"
        /\ "user" \notin DOMAIN context

\* The service answered authorization_required and the request was sent
\* to the login URL.
C5_Witness ==
    /\ reply.failed
    /\ reply.error.error = "authorization_required"
    /\ res.kind = "redirect"
    /\ res.url[1] = login_url

\* C6: with the cookie and user-bootstrap disabled, the gate issues no
\* identity-service call and sends no redirect, the context's user is
\* false and the next handler (the renderer) is called.
C6_NoBootstrapPassesOn ==
    (req.cookie /\ ~cfg.wpcom_user_bootstrap /\ GateRan) =>
        /\ calls = 0
        /\ ~reply.called
        /\ res.kind # "redirect"
        /\ context.user = False
        /\ Table[idx].kind = "render"
        /\ phase = "done" => trail[Len(trail)] = "serverRender"

\* A request with the cookie was rendered with user false while
\* user-bootstrap is disabled.
C6_Witness ==
    /\ req.cookie
    /\ ~cfg.wpcom_user_bootstrap
    /\ InTrail("setUpLoggedInRoute")
    /\ phase = "done"
    /\ res.kind = "render"
    /\ res.locals.user = False

\* C7: after a successful lookup the legacy query redirects apply on the
\* root path alone, the search parameter (s, else q) before newuseremail
\* before action=wpcom-invite-users; the search redirect goes to
\* https://<locale>.search.wordpress.com/?q=<percent-encoded term>, the
\* locale being the user's localeSlug when set and the default otherwise.
\* Otherwise the next handler is called with the user in the context.
C7_LegacyQueryRedirects ==
    (reply.called /\ ~reply.failed) =>
        LET locale == IF reply.data.localeSlug # ""
                      THEN reply.data.localeSlug
                      ELSE i18n_default_locale_slug
            term == IF Param(req.query, "s") # <<>>
                    THEN Param(req.query, "s")
                    ELSE Param(req.query, "q")
            root == req.path = PathRoot
        IN  IF root /\ term # <<>>
            THEN /\ res.kind = "redirect"
                 /\ res.url = <<"https://", locale, ".search.wordpress.com/?q=">>
                              \o encodeURIComponent(term)
            ELSE IF root /\ Param(req.query, "newuseremail") # <<>>
            THEN /\ res.kind = "redirect"
                 /\ res.url[1] = "https://wordpress.com/verify-email/?"
            ELSE IF root /\ Param(req.query, "action") = invite
            THEN /\ res.kind = "redirect"
                 /\ res.url[1] = "https://wordpress.com/accept-invite/?"
            ELSE /\ res.kind # "redirect"
                 /\ context.user = reply.data
                 /\ Table[idx].kind = "render"

\* /?q=a%20b, looked up as a user whose locale is fr, was redirected to
\* the search service with the term percent-encoded.
C7_Witness ==
    /\ reply.called
    /\ req.path = PathRoot
    /\ res.kind = "redirect"
    /\ res.url = <<"https://", "fr", ".search.wordpress.com/?q=",
                   "a", "%", "2", "0", "b">>

\* C8, as claimed: every response carries X-Frame-Options: SAMEORIGIN.
C8_Claimed ==
    phase = "done" => XFrameOptions \in res.headers

\* C8, as amended: a response carries X-Frame-Options: SAMEORIGIN exactly
\* when the auth gate ran for the request (rendered section, login
\* redirect, 500 view, legacy query redirect); the responses of the
\* handlers that answer without the gate (homepage, legacy rewriter,
\* /discover, /plans and /theme redirects, 404 view) do not carry it.
C8_FrameOptionsBehindGate ==
    phase = "done" => (XFrameOptions \in res.headers <=> GateRan)

\* The 500 view was sent with the header.
C8_Witness ==
    /\ phase = "done"
    /\ res.status = 500
    /\ XFrameOptions \in res.headers

\* C9: a static file's token, once computed, is never computed again or
\* changed, and the asset URL map every later request is given holds that
\* token.
C9_TokenWriteOnce ==
    [][ /\ \A path \in DOMAIN fileHash :
             fileHash[path] # NoHash => fileHash'[path] = fileHash[path]
        /\ UrlsOf' # <<>> =>
             \A path \in DOMAIN fileHash :
                 UrlsOf'[path] = getUrl(path, fileHash'[path]) ]_vars

\* A request that arrived after a static file changed was given the token
\* computed before the change.
C9_Witness ==
    /\ phase = "done"
    /\ stable
    /\ UrlsOf # <<>>
    /\ \E path \in DOMAIN fileHash :
          /\ fs[path].readable
          /\ fileHash[path] # NoHash
          /\ fileHash[path] # hashFile(path)

\* C10: a logged-out request that repeats the previous one, files and
\* bundle manifest unchanged in between, is given the same asset URL map.
C10_RepeatedRequestSameUrls ==
    (repeat /\ ~req.cookie /\ last # <<>> /\ UrlsOf # <<>>) => UrlsOf = last

\* A repeated logged-out request was given the same map although a static
\* file could never be read and the time has changed since its token was
\* computed.
C10_Witness ==
    /\ repeat
    /\ ~req.cookie
    /\ last # <<>>
    /\ UrlsOf = last
    /\ events = 0
    /\ \E path \in DOMAIN fileHash :
          /\ ~fs[path].readable
          /\ fileHash[path] # NoHash
          /\ fileHash[path] # hashFile(path)

\* C11: at most one identity-service call is issued over the processing of
\* a request; while it is pending no callback has run, and once the
\* callback has run (with an error or not) the one call stays the only one
\* and none is pending: a failed call is not retried.
C11_OneCallNoRetry ==
    /\ calls <= 1
    /\ phase = "pending" => calls = 1 /\ ~reply.called
    /\ reply.called => calls = 1 /\ phase # "pending"
    /\ reply.failed => phase = "done"

\* The service reported an error other than authorization_required, the
\* request was answered with the 500 view and one call was issued.
C11_Witness ==
    /\ reply.failed
    /\ reply.error.error = "invalid_token"
    /\ calls = 1
    /\ phase = "done"
    /\ res.status = 500

\* The position of a section in the manifest.
SectionIndex(name) == CHOOSE i \in 1..Len(Manifest) : Manifest[i].name = name

\* The place of a route in the order of C12: the legacy rewriter, the
\* /discover and /plans redirects, the /theme redirect, the section routes
\* by the position of their section in the manifest, the catch-all.  The
\* homepage redirect, which C12 does not list, is registered first.
RouteRank(route) ==
    CASE route.kind = "homepage" -> 0
      [] route.kind = "legacy" -> 1
      [] route.kind \in {"discover", "plans"} -> 2
      [] route.kind = "theme" -> 3
      [] route.kind \in {"chunk", "gate", "render"} ->
            3 + SectionIndex(route.section)
      [] route.kind = "404" -> 4 + Len(Manifest)

\* The same for a handler of the trail.
HandlerRank(h) ==
    CASE h = "homepage" -> 0
      [] h = "legacy" -> 1
      [] h \in {"discover", "plans"} -> 2
      [] h = "theme" -> 3
      [] h = "render404" -> 5
      [] OTHER -> 4

\* The handler of the route ran for the request in flight.
Ran(route) ==
    CASE route.kind = "chunk" -> InTrail("chunk")
      [] route.kind = "gate" -> GateRan
      [] route.kind = "render" -> InTrail("serverRender")
      [] route.kind = "404" -> InTrail("render404")
      [] OTHER -> InTrail(route.kind)

\* The routes of a table follow the order of C12, the catch-all last and
\* only there.
InOrder(table) ==
    /\ \A i \in 1..(Len(table) - 1) :
          /\ RouteRank(table[i]) <= RouteRank(table[i + 1])
          /\ table[i].kind # "404"
    /\ table[Len(table)].kind = "404"

InOrderOf == [c \in Configs |-> InOrder(TableOf[c])]

\* C12: the routes are registered in the order legacy rewriter, /discover
\* and /plans redirects, /theme redirect, section routes in manifest
\* order, catch-all, the catch-all last and only there; the handlers of a
\* request run in that order, no matching route is skipped, and the
\* catch-all runs only when every matching route before it ran and passed
\* the request on without responding.
C12_RegistrationOrder ==
    /\ InOrderOf[cfg]
    /\ \A i \in 1..(Len(trail) - 1) :
          HandlerRank(trail[i]) <= HandlerRank(trail[i + 1])
    /\ phase # "idle" =>
          \A k \in 1..(idx - 1) : Matches(Table[k], req) => Ran(Table[k])
    /\ InTrail("render404") =>
          /\ trail[Len(trail)] = "render404"
          /\ idx = Len(Table)
          /\ res.count = 1
          /\ res.view = "404"

\* /plans with the cookie, outside development: the /plans redirect
\* passed the request on to the section's handlers, which rendered it.
C12_Witness ==
    /\ phase = "done"
    /\ Len(trail) >= 4
    /\ trail[1] = "plans"
    /\ trail[2] = "chunk"
    /\ trail[Len(trail)] = "serverRender"

\* C13: a handler of the pipeline (a step that adds to the trail) either
\* sends the response and calls nothing, or sends nothing and calls the
\* next handler, or, for the auth gate, sends nothing and leaves both to
\* the callback of the identity-service call; never a response and the
\* next handler.  At most one response is sent for a request and no
\* handler runs once it is sent.
C13_RespondXorNext ==
    [][ /\ res'.count <= 1
        /\ res.count >= 1 => Len(trail') <= Len(trail)
        /\ Len(trail') > Len(trail) =>
              \/ /\ res'.count = res.count + 1
                 /\ phase' = "done"
                 /\ idx' = idx
              \/ /\ res'.count = res.count
                 /\ phase' = "routing"
                 /\ idx' > idx
              \/ /\ res'.count = res.count
                 /\ phase' = "pending"
                 /\ idx' = idx
                 /\ InTrail("setUpLoggedInRoute")' ]_vars

\* The callback of the identity-service call answered the request with a
\* redirect, the one response, and the renderer behind the gate never ran.
C13_Witness ==
    /\ phase = "done"
    /\ res.count = 1
    /\ res.kind = "redirect"
    /\ trail[Len(trail)] = "user-callback"
    /\ Table[idx].kind = "gate"

\* C14, as claimed: the module-level sections still equals the manifest
\* loaded at process start, whatever requests were handled.
C14_Claimed == sections = Manifest

\* The object is a context getDefaultContext built.
Built(ctx) == "compileDebug" \in DOMAIN ctx

\* The contexts of the request in flight: req.context and the one the
\* gate holds while the identity-service call is pending.
Contexts == {context, gateCtx}

\* C15, as claimed: the context built for a request has user false until
\* the identity service returns a user, compileDebug true exactly in
\* development, and isDebug true exactly when the debug parameter is
\* present or the environment is development.
C15_Claimed ==
    \A ctx \in Contexts :
        Built(ctx) =>
            /\ ~reply.called => ctx.user = False
            /\ ctx.compileDebug <=> cfg.env = "development"
            /\ ctx.isDebug <=>
                  (HasParam(req.query, "debug") \/ cfg.env = "development")

\* C15, as amended: user is false until the identity service returns a
\* user, compileDebug is true exactly in development, isDebug is true
\* exactly when the debug parameter is present (whatever its value and
\* whatever the environment), and app.isDebug is true exactly when the
\* debug parameter is present or the environment is development.
C15_DebugFlags ==
    \A ctx \in Contexts :
        Built(ctx) =>
            /\ ~reply.called => ctx.user = False
            /\ ctx.compileDebug <=> cfg.env = "development"
            /\ ctx.isDebug <=> HasParam(req.query, "debug")
            /\ ctx.app.isDebug <=>
                  (HasParam(req.query, "debug") \/ cfg.env = "development")

\* In development, a request without the debug parameter was given a
\* context whose isDebug is false and whose app.isDebug is true.
C15_Witness ==
    /\ cfg.env = "development"
    /\ ~HasParam(req.query, "debug")
    /\ Built(context)
    /\ ~context.isDebug
    /\ context.app.isDebug
    /\ context.compileDebug
    /\ context.user = False

\* C18, as claimed: whenever the legacy rewriter sends a redirect, the
\* target differs from the URL requested and does not begin with /sites/.
C18_Claimed ==
    (InTrail("legacy") /\ res.kind = "redirect") =>
        /\ res.url # originalUrl(req)
        /\ ~HasAt(res.url, 1, <<"/", "s", "i", "t", "e", "s", "/">>)

\* C19: with code-splitting enabled, the chunk name the first handler of
\* a section's route wrote to req.context is in the context the renderer
\* is given, equal to the section's name, behind the logged-out path and
\* behind the logged-in path, user-bootstrap enabled (after a successful
\* lookup) or disabled; it is also in the context the gate holds while
\* the call is pending.
C19_ChunkKept ==
    (cfg.codeSplitting /\ GateRan) =>
        /\ Built(context) =>
              /\ "chunk" \in DOMAIN context
              /\ context.chunk = Table[idx].section
        /\ Built(gateCtx) =>
              /\ "chunk" \in DOMAIN gateCtx
              /\ gateCtx.chunk = Table[idx].section
        /\ InTrail("serverRender") =>
              /\ "chunk" \in DOMAIN res.locals
              /\ res.locals.chunk = SectionReached(req).name

\* With code-splitting and user-bootstrap enabled, a request with the
\* cookie was rendered after a successful lookup, the chunk name in the
\* context next to the user.
C19_Witness ==
    /\ cfg.codeSplitting
    /\ cfg.wpcom_user_bootstrap
    /\ req.cookie
    /\ reply.called
    /\ InTrail("serverRender")
    /\ res.locals.chunk = "stats"
    /\ res.locals.user = reply.data

\* state.login[ key ], undefined without a login.
LoginFlag(key) ==
    IF state.login.type = "object" THEN state.login[key] ELSE Undefined

\* Two-factor authentication is enabled for the user of the state tree:
\* isTwoFactorEnabled is true.
TwoFactorOn == isTwoFactorEnabled(state) = Bool(TRUE)

\* C16: isLoginSuccessful is verificationCodeSubmissionSuccess when
\* isTwoFactorEnabled is true, so that requestSuccess alone never makes it
\* true, and requestSuccess when two-factor is not enabled (false) or not
\* known (null); in both cases it is false when the flag is absent.
C16_LoginSuccessByStep ==
    selected.selector = "isLoginSuccessful" =>
        LET flag == IF TwoFactorOn
                    THEN LoginFlag("verificationCodeSubmissionSuccess")
                    ELSE LoginFlag("requestSuccess")
        IN  /\ selected.value = IF flag = Undefined THEN Bool(FALSE) ELSE flag
            /\ (/\ TwoFactorOn
                /\ LoginFlag("verificationCodeSubmissionSuccess") # Bool(TRUE))
               => selected.value # Bool(TRUE)

\* With two-factor enabled and the password request successful, the
\* selector answered false: no verification code was submitted yet.
C16_Witness ==
    /\ selected.selector = "isLoginSuccessful"
    /\ TwoFactorOn
    /\ LoginFlag("requestSuccess") = Bool(TRUE)
    /\ LoginFlag("verificationCodeSubmissionSuccess") = Undefined
    /\ selected.value = Bool(FALSE)

\* The request in flight has its terminal response: one response, a
\* redirect or a rendered view (the section's page, the 500 or the 404).
Answered ==
    /\ phase = "done"
    /\ res.count = 1
    /\ \/ res.kind = "redirect" /\ res.status = 302
       \/ res.kind = "render" /\ res.status \in {200, 404, 500}

\* C17: given that the identity service calls back and the renderer
\* responds, every request that entered the pipeline is eventually
\* answered with one terminal response; and a request not yet answered is
\* either waiting for the identity-service call or has a handler ready
\* to run.
C17_EveryRequestAnswered ==
    /\ (phase \in {"routing", "pending"}) ~> Answered
    /\ [](phase \notin {"idle", "done", "pending"} => ENABLED Handlers)

\* A request waited for the identity-service call and was then rendered.
C17_Witness ==
    /\ Answered
    /\ calls = 1
    /\ reply.called
    /\ trail[Len(trail)] = "serverRender"
    /\ res.status = 200

=============================================================================
